---- MODULE Spec2Model ----
(***************************************************************************)
(* German hyphenation utility (src/utils/hyphenation.ts).                  *)
(*                                                                         *)
(* A JavaScript string is modelled as a sequence of characters, and a      *)
(* character as a token: an ASCII character stands for itself, and         *)
(*   "ae" "oe" "ue" "AE" "OE" "UE" "sz"  are  a-umlaut, o-umlaut,          *)
(*   u-umlaut, their capitals and sharp s,                                 *)
(*   "shy" is U+00AD (the soft hyphen), " " a space, "tab" U+0009.         *)
(* The module-level arrays PREFIXES, SUFFIXES and INSEPARABLE_CLUSTERS are *)
(* state: Array.prototype.sort sorts them in place.                        *)
(***************************************************************************)
EXTENDS Integers, Sequences, FiniteSets, TLC

VARIABLES
    PREFIXES,              \* the module-level array PREFIXES
    SUFFIXES,              \* the module-level array SUFFIXES
    INSEPARABLE_CLUSTERS,  \* the module-level array INSEPARABLE_CLUSTERS
    pc,                    \* position of the caller
    inputWord,             \* argument of the first hyphenateWord call
    output,                \* value returned by hyphenateWord(inputWord)
    foundBoundaries,       \* hyphenateWord's local `boundaries` in that call
    called,                \* whether that call ran findSyllableBoundaries
    output2,               \* value returned by hyphenateWord(output)
    inputText,             \* argument of hyphenateText
    textOutput,            \* value returned by hyphenateText(inputText)
    frame,                 \* locals of a call that runs statement by statement
    lastCall,              \* the latest of a series of hyphenateWord calls
    triple,                \* three characters put before the scan's rules
    board,                 \* the board of the puzzle being played
    gameState              \* the GameState value held by the player

vars == <<PREFIXES, SUFFIXES, INSEPARABLE_CLUSTERS, pc, inputWord, output,
          foundBoundaries, called, output2, inputText, textOutput, frame,
          lastCall,
          triple, board, gameState>>

tables == <<PREFIXES, SUFFIXES, INSEPARABLE_CLUSTERS>>

----------------------------------------------------------------------------
(* Bounds of the checked input space.                                      *)

\* longest word made of letters only
MaxLen == 6

\* longest word that may also hold a hyphen, a soft hyphen or a digit
MaxMixedLen == 5

\* longest text handed to hyphenateText
MaxTextLen == 7

----------------------------------------------------------------------------
(* The module-level constants, as the module initialises them.             *)

PREFIXES_INIT ==
  <<
    <<"ue","b","e","r">>, <<"u","n","t","e","r">>,
    <<"h","i","n","t","e","r">>, <<"z","w","i","s","c","h","e","n">>,
    <<"d","u","r","c","h">>, <<"w","i","d","e","r">>, <<"g","e">>,
    <<"b","e">>, <<"v","e","r">>, <<"z","e","r">>, <<"e","n","t">>,
    <<"e","m","p">>, <<"e","r">>, <<"m","i","s","s">>, <<"u","n">>,
    <<"v","o","r">>, <<"n","a","c","h">>, <<"a","u","s">>, <<"e","i","n">>,
    <<"a","u","f">>, <<"a","b">>, <<"a","n">>, <<"b","e","i">>,
    <<"m","i","t">>, <<"z","u">>, <<"h","i","n">>, <<"h","e","r">>,
    <<"u","m">>, <<"h","e","r","u","m">>, <<"h","i","n","a","u","s">>,
    <<"h","e","r","a","u","s">>
>>

SUFFIXES_INIT ==
  <<
    <<"s","c","h","a","f","t">>, <<"h","e","i","t">>, <<"k","e","i","t">>,
    <<"u","n","g">>, <<"l","i","c","h">>, <<"i","s","c","h">>,
    <<"c","h","e","n">>, <<"l","e","i","n">>, <<"b","a","r">>,
    <<"s","a","m">>, <<"h","a","f","t">>, <<"l","o","s">>,
    <<"v","o","l","l">>, <<"r","e","i","c","h">>, <<"a","r","m">>,
    <<"w","e","r","t">>, <<"w","e","i","s","e">>, <<"a","r","t","i","g">>,
    <<"m","ae","sz","i","g">>, <<"t","u","m">>, <<"n","i","s">>,
    <<"s","a","l">>, <<"s","e","l">>, <<"t","i","o","n">>,
    <<"s","i","o","n">>, <<"i","e","r","e","n">>, <<"i","s","m","u","s">>,
    <<"i","s","t">>, <<"i","t","ae","t">>
>>

VOWELS ==
    <<"a", "e", "i", "o", "u", "ae", "oe", "ue", "y",
      "A", "E", "I", "O", "U", "AE", "OE", "UE", "Y">>

INSEPARABLE_CLUSTERS_INIT ==
  <<
    <<"s","c","h">>, <<"c","h">>, <<"c","k">>, <<"p","h">>, <<"t","h">>,
    <<"q","u">>, <<"p","f">>, <<"s","t">>, <<"s","p">>, <<"b","l">>,
    <<"b","r">>, <<"c","l">>, <<"c","r">>, <<"d","r">>, <<"f","l">>,
    <<"f","r">>, <<"g","l">>, <<"g","r">>, <<"k","l">>, <<"k","n">>,
    <<"k","r">>, <<"p","l">>, <<"p","r">>, <<"t","r">>, <<"s","c","h","l">>,
    <<"s","c","h","n">>, <<"s","c","h","m">>, <<"s","c","h","r">>,
    <<"s","c","h","w">>, <<"s","p","r">>, <<"s","t","r">>
>>

SOFT_HYPHEN == "shy"

----------------------------------------------------------------------------
(* Characters.                                                             *)

LowerLetters ==
  <<
    "a", "b", "c", "d", "e", "f", "g", "h", "i", "j", "k", "l", "m", "n",
    "o", "p", "q", "r", "s", "t", "u", "v", "w", "x", "y", "z", "ae", "oe",
    "ue"
  >>

UpperLetters ==
  <<
    "A", "B", "C", "D", "E", "F", "G", "H", "I", "J", "K", "L", "M", "N",
    "O", "P", "Q", "R", "S", "T", "U", "V", "W", "X", "Y", "Z", "AE", "OE",
    "UE"
  >>

\* String.prototype.toLowerCase on one character: sharp s and every
\* non-letter map to themselves.
LowerOf ==
    [c \in {UpperLetters[k] : k \in DOMAIN UpperLetters} |->
        LowerLetters[CHOOSE k \in DOMAIN UpperLetters : UpperLetters[k] = c]]

toLowerCase(s) ==
    [k \in DOMAIN s |-> IF s[k] \in DOMAIN LowerOf THEN LowerOf[s[k]] ELSE s[k]]

\* the character class [a-zA-Z<umlauts>sz] of the two regular expressions
\* (the class of isConsonant is case-insensitive, so it is the same class)
GermanLetters ==
    {LowerLetters[k] : k \in DOMAIN LowerLetters}
        \cup {UpperLetters[k] : k \in DOMAIN UpperLetters} \cup {"sz"}

\* the characters matched by \s among the modelled ones
WhiteSpace == {" ", "tab"}

isVowel(char) == \E k \in DOMAIN VOWELS : VOWELS[k] = char

isConsonant(char) == char \in GermanLetters /\ ~isVowel(char)

----------------------------------------------------------------------------
(* String and array primitives of the JavaScript library, on sequences.    *)
(* Offsets are JavaScript's: the first character is at offset 0.           *)

Range(s) == {s[k] : k \in DOMAIN s}

Min(a, b) == IF a < b THEN a ELSE b

\* s[i]: undefined when i is not an offset of s
charAt(s, i) == IF i + 1 \in DOMAIN s THEN s[i + 1] ELSE "undefined"

\* s.slice(from, to) for 0 <= from; `to` is clipped to the length
slice(s, from, to) == SubSeq(s, from + 1, Min(to, Len(s)))

\* s.slice(from)
sliceFrom(s, from) == SubSeq(s, from + 1, Len(s))

startsWith(s, p) == Len(p) <= Len(s) /\ SubSeq(s, 1, Len(p)) = p

endsWith(s, p) ==
    Len(p) <= Len(s) /\ SubSeq(s, Len(s) - Len(p) + 1, Len(s)) = p

\* s.includes(sub), for a string or for one character
includes(s, sub) ==
    \E k \in 0..(Len(s) - Len(sub)) : SubSeq(s, k + 1, k + Len(sub)) = sub

includesChar(s, c) == \E k \in DOMAIN s : s[k] = c

\* boundaries.includes(n)
includesNumber(arr, n) == \E k \in DOMAIN arr : arr[k] = n

\* the length of the longest of arr[k], arr[k + 1], ...
LongestFrom(arr, k) ==
    LET lengths == {Len(arr[j]) : j \in k..Len(arr)}
    IN  IF lengths = {} THEN 0
        ELSE CHOOSE n \in lengths : \A m \in lengths : m <= n

RECURSIVE OfLengthDownFrom(_, _)
OfLengthDownFrom(arr, n) ==
    IF n < 0 THEN <<>>
    ELSE SelectSeq(arr, LAMBDA e : Len(e) = n) \o OfLengthDownFrom(arr, n - 1)

\* mutant: the sort is left out, the array is iterated as it stands
sortByLengthDesc_unsorted(arr) == arr

\* mutant: arr.reverse(), the array is turned around in place
sortByLengthDesc_reverse(arr) ==
    [k \in 1..Len(arr) |-> arr[Len(arr) + 1 - k]]

\* arr.sort((a, b) => b.length - a.length): longest first, entries of equal
\* length in their previous order (the sort is stable); the array it returns is
\* the sorted array itself
sortByLengthDesc(arr) == OfLengthDownFrom(arr, LongestFrom(arr, 1))

RECURSIVE InsertAscending(_, _)
InsertAscending(arr, n) ==
    IF arr = <<>> THEN <<n>>
    ELSE IF n < Head(arr) THEN <<n>> \o arr
    ELSE <<Head(arr)>> \o InsertAscending(Tail(arr), n)

RECURSIVE sortAscending(_)
\* arr.sort((a, b) => a - b) on numbers
sortAscending(arr) ==
    IF arr = <<>> THEN <<>>
    ELSE InsertAscending(sortAscending(SubSeq(arr, 1, Len(arr) - 1)),
                         arr[Len(arr)])

\* the first of the indices `hits` of the entries that pass a loop's test (a
\* for loop that breaks at the first hit), 0 when none passes
firstHit(hits) ==
    IF hits = {} THEN 0
    ELSE CHOOSE k \in hits : \A j \in hits : k <= j

----------------------------------------------------------------------------
(* findSyllableBoundaries.  The three arrays are passed in as the record   *)
(* tb and handed back as they are when the call returns: the for loops     *)
(* sort them in place before iterating.                                    *)

\* mutant: the prefix is looked for in the word itself, not in lowerWord
prefixFits_caseSensitive(word, prefix) ==
    /\ startsWith(word, prefix)
    /\ Len(word) > Len(prefix) + 2
    /\ LET afterPrefix == sliceFrom(word, Len(prefix))
       IN  /\ Len(afterPrefix) > 0
           /\ (isVowel(afterPrefix[1]) \/ isConsonant(afterPrefix[1]))

\* the condition under which the prefix loop takes `prefix` and breaks
prefixFits(word, prefix) ==
    LET lowerWord == toLowerCase(word)
    IN  /\ startsWith(lowerWord, prefix)
        /\ Len(word) > Len(prefix) + 2
        /\ LET afterPrefix == sliceFrom(lowerWord, Len(prefix))
           IN  /\ Len(afterPrefix) > 0
               /\ (isVowel(afterPrefix[1]) \/ isConsonant(afterPrefix[1]))

\* prefixEnd after the prefix loop over the sorted array `prefixes`
prefixEndOf(word, prefixes) ==
    LET hit == firstHit({k \in DOMAIN prefixes : prefixFits(word, prefixes[k])})
    IN  IF hit = 0 THEN 0 ELSE Len(prefixes[hit])

\* mutant: one character before the suffix is enough
suffixFits_anyRest(word, suffix) ==
    LET lowerWord == toLowerCase(word)
    IN  /\ endsWith(lowerWord, suffix)
        /\ Len(slice(lowerWord, 0, Len(lowerWord) - Len(suffix))) > 0

\* the condition under which the suffix loop takes `suffix` and breaks
suffixFits(word, suffix) ==
    LET lowerWord == toLowerCase(word)
    IN  /\ endsWith(lowerWord, suffix)
        /\ Len(word) > Len(suffix) + 2
        /\ LET beforeSuffix == slice(lowerWord, 0, Len(lowerWord) - Len(suffix))
           IN  Len(beforeSuffix) > 0

\* suffixStart after the suffix loop over the sorted array `suffixes`
suffixStartOf(word, suffixes) ==
    LET hit == firstHit({k \in DOMAIN suffixes : suffixFits(word, suffixes[k])})
    IN  IF hit = 0 THEN Len(word) ELSE Len(word) - Len(suffixes[hit])

\* Rule: split between vowel and consonant before another vowel (V-CV)
ruleVCV(prev, curr, next) == isVowel(prev) /\ isConsonant(curr) /\ isVowel(next)

\* mutant: the two consonants need not differ
ruleCC_same(prev, curr) == isConsonant(prev) /\ isConsonant(curr)

\* Rule: split between two different consonants
ruleCC(prev, curr) == isConsonant(prev) /\ isConsonant(curr) /\ prev # curr

\* mutant: "s" is not excepted
ruleDouble_withS(prev, curr) == isConsonant(prev) /\ curr = prev

\* Rule: double consonants can be split
ruleDouble(prev, curr) == isConsonant(prev) /\ curr = prev /\ prev # "s"

\* the conditions of the three interior rules that hold for prev, curr, next
rulesHolding(prev, curr, next) ==
    {r \in {"vcv"} : ruleVCV(prev, curr, next)}
        \cup {r \in {"cc"} : ruleCC(prev, curr)}
        \cup {r \in {"double"} : ruleDouble(prev, curr)}

\* the branch of the if / else if chain taken for prev, curr, next
branchOf(prev, curr, next) ==
    IF ruleVCV(prev, curr, next) THEN "vcv"
    ELSE IF ruleCC(prev, curr) THEN "cc"
    ELSE IF ruleDouble(prev, curr) THEN "double"
    ELSE "none"

\* isCluster after the loop over the cluster array at offset i
isCluster(lowerWord, i, clusters) ==
    LET testCluster == slice(lowerWord, i - 1, i + 2)
    IN  \E k \in DOMAIN clusters : includes(testCluster, clusters[k])

\* mutant: afterHasVowel is not tested
hasVowelBothSides_beforeOnly(lowerWord, i) ==
    \E k \in DOMAIN slice(lowerWord, 0, i) : isVowel(slice(lowerWord, 0, i)[k])

\* beforeHasVowel && afterHasVowel at offset i
hasVowelBothSides(lowerWord, i) ==
    /\ \E k \in DOMAIN slice(lowerWord, 0, i) :
           isVowel(slice(lowerWord, 0, i)[k])
    /\ \E k \in DOMAIN sliceFrom(lowerWord, i) :
           isVowel(sliceFrom(lowerWord, i)[k])

push(arr, n) == Append(arr, n)

pushIfNew(arr, n) == IF includesNumber(arr, n) THEN arr ELSE push(arr, n)

RECURSIVE scanLoop(_, _, _, _, _)
\* the loop  for (let i = start + 1; i < end - 1; i++)  from offset i on, with
\* the boundaries found so far and the cluster array as it is now
scanLoop(lowerWord, i, end, found, clusters) ==
    IF ~(i < end - 1) THEN [boundaries |-> found, clusters |-> clusters]
    ELSE IF includesNumber(found, i)
        THEN scanLoop(lowerWord, i + 1, end, found, clusters)
    ELSE
        LET prev == charAt(lowerWord, i - 1)
            curr == charAt(lowerWord, i)
            next == charAt(lowerWord, i + 1)
        IN  IF ruleVCV(prev, curr, next)
                THEN scanLoop(lowerWord, i + 1, end, pushIfNew(found, i),
                              sortByLengthDesc(clusters))
            ELSE IF ruleCC(prev, curr)
                THEN scanLoop(lowerWord, i + 1, end,
                              IF /\ ~isCluster(lowerWord, i, clusters)
                                 /\ ~includesNumber(found, i)
                                 /\ hasVowelBothSides(lowerWord, i)
                              THEN push(found, i) ELSE found,
                              clusters)
            ELSE IF ruleDouble(prev, curr)
                THEN scanLoop(lowerWord, i + 1, end, pushIfNew(found, i),
                              clusters)
            ELSE scanLoop(lowerWord, i + 1, end, found, clusters)

\* mutant: suffixStart is pushed without looking whether it is a boundary
addSuffixBoundary_again(word, suffixStart, found) ==
    IF suffixStart < Len(word) /\ suffixStart > 1
    THEN push(found, suffixStart) ELSE found

\* the suffix boundary added after the loop
addSuffixBoundary(word, suffixStart, found) ==
    IF /\ suffixStart < Len(word)
       /\ ~includesNumber(found, suffixStart)
       /\ suffixStart > 1
    THEN push(found, suffixStart) ELSE found

\* ret: the array returned; tb: the three module-level arrays afterwards
findSyllableBoundaries(word, tb) ==
    IF Len(word) < 4 THEN [ret |-> <<>>, tb |-> tb]
    ELSE
        LET lowerWord == toLowerCase(word)
            prefixes == sortByLengthDesc(tb.PREFIXES)
            suffixes == sortByLengthDesc(tb.SUFFIXES)
            prefixEnd == prefixEndOf(word, prefixes)
            suffixStart == suffixStartOf(word, suffixes)
            scan == scanLoop(lowerWord, prefixEnd + 1, suffixStart,
                             IF prefixEnd = 0 THEN <<>> ELSE <<prefixEnd>>,
                             tb.INSEPARABLE_CLUSTERS)
        IN  [ret |-> sortAscending(
                        addSuffixBoundary(word, suffixStart, scan.boundaries)),
             tb  |-> [PREFIXES |-> prefixes, SUFFIXES |-> suffixes,
                      INSEPARABLE_CLUSTERS |-> scan.clusters]]

----------------------------------------------------------------------------
(* hyphenateWord and hyphenateText.                                        *)

\* word.includes('-') || word.includes(SOFT_HYPHEN)
alreadyHyphenated(word) ==
    includesChar(word, "-") \/ includesChar(word, SOFT_HYPHEN)

\* mutant: the expression without its anchors, /[a-zA-Z<umlauts>sz]+/
isGermanWord_unanchored(word) ==
    \E k \in DOMAIN word : word[k] \in GermanLetters

\* /^[a-zA-Z<umlauts>sz]+$/.test(word)
isGermanWord(word) ==
    Len(word) > 0 /\ \A k \in DOMAIN word : word[k] \in GermanLetters

\* mutant: only the length is tested, the two guards after it are missing
returnsEarly_lengthOnly(word) == Len(word) < 5

\* mutant: the length threshold of findSyllableBoundaries instead of 5
returnsEarly_below4(word) ==
    \/ Len(word) < 4
    \/ alreadyHyphenated(word)
    \/ ~isGermanWord(word)

\* the three early returns of hyphenateWord: the word is handed back as it is
returnsEarly(word) ==
    \/ Len(word) < 5
    \/ alreadyHyphenated(word)
    \/ ~isGermanWord(word)

\* mutant: the comparisons are strict
marksAt_strict(result, pos) == pos > 2 /\ pos < Len(result) - 2

\* mutant: a minimum syllable length of 1 instead of 2
marksAt_min1(result, pos) == pos >= 1 /\ pos <= Len(result) - 1

\* the test that lets a marker in at offset pos of the partly marked result
marksAt(result, pos) == pos >= 2 /\ pos <= Len(result) - 2

RECURSIVE insertLoop_overwrite(_, _, _)
\* mutant: result.slice(pos + 1), the marker takes the place of a character
insertLoop_overwrite(result, bnd, i) ==
    IF ~(i >= 0) THEN result
    ELSE
        LET pos == bnd[i + 1]
        IN  insertLoop_overwrite(
                IF pos >= 2 /\ pos <= Len(result) - 2
                    THEN slice(result, 0, pos) \o <<SOFT_HYPHEN>>
                             \o sliceFrom(result, pos + 1)
                    ELSE result,
                bnd, i - 1)

RECURSIVE insertLoop(_, _, _)
\* the loop  for (let i = boundaries.length - 1; i >= 0; i--)  from index i on
insertLoop(result, bnd, i) ==
    IF ~(i >= 0) THEN result
    ELSE
        LET pos == bnd[i + 1]
        IN  insertLoop(IF marksAt(result, pos)
                           THEN slice(result, 0, pos) \o <<SOFT_HYPHEN>>
                                    \o sliceFrom(result, pos)
                           ELSE result,
                       bnd, i - 1)

\* mutant: the markers are inserted into the lower-cased working copy
hyphenateWord_lowered(word, tb) ==
    IF returnsEarly(word)
        THEN [ret |-> word, boundaries |-> <<>>, called |-> FALSE, tb |-> tb]
    ELSE
        LET found == findSyllableBoundaries(word, tb)
        IN  [ret |-> IF Len(found.ret) = 0 THEN word
                     ELSE insertLoop(toLowerCase(word), found.ret,
                                     Len(found.ret) - 1),
             boundaries |-> found.ret,
             called |-> TRUE,
             tb |-> found.tb]

\* ret: the string returned; boundaries: the local array (empty when
\* findSyllableBoundaries was not called); called: whether it was called;
\* tb: the three module-level arrays afterwards
hyphenateWord(word, tb) ==
    IF returnsEarly(word)
        THEN [ret |-> word, boundaries |-> <<>>, called |-> FALSE, tb |-> tb]
    ELSE
        LET found == findSyllableBoundaries(word, tb)
        IN  [ret |-> IF Len(found.ret) = 0 THEN word
                     ELSE insertLoop(word, found.ret, Len(found.ret) - 1),
             boundaries |-> found.ret,
             called |-> TRUE,
             tb |-> found.tb]

isWhiteSpaceRun(part) ==
    Len(part) > 0 /\ \A k \in DOMAIN part : part[k] \in WhiteSpace

RECURSIVE split_noCapture(_)
\* mutant: text.split(/\s+/), without the capture group: the runs are dropped
split_noCapture(text) ==
    LET blanks == {k \in DOMAIN text : text[k] \in WhiteSpace}
    IN  IF blanks = {} THEN <<text>>
        ELSE
            LET first == CHOOSE k \in blanks : \A j \in blanks : k <= j
                after == {k \in first..Len(text) : text[k] \notin WhiteSpace}
                last  == IF after = {} THEN Len(text)
                         ELSE (CHOOSE k \in after : \A j \in after : k <= j) - 1
            IN  <<SubSeq(text, 1, first - 1)>>
                    \o split_noCapture(SubSeq(text, last + 1, Len(text)))

RECURSIVE split(_)
\* text.split(/(\s+)/): the pieces between the maximal whitespace runs and,
\* for the capture group, the runs themselves; a piece before a leading run
\* or after a trailing run is the empty string
split(text) ==
    LET blanks == {k \in DOMAIN text : text[k] \in WhiteSpace}
    IN  IF blanks = {} THEN <<text>>
        ELSE
            LET first == CHOOSE k \in blanks : \A j \in blanks : k <= j
                after == {k \in first..Len(text) : text[k] \notin WhiteSpace}
                last  == IF after = {} THEN Len(text)
                         ELSE (CHOOSE k \in after : \A j \in after : k <= j) - 1
            IN  <<SubSeq(text, 1, first - 1), SubSeq(text, first, last)>>
                    \o split(SubSeq(text, last + 1, Len(text)))

RECURSIVE mapJoin(_, _, _, _)
\* parts.map(part => ...).join(''), from index k on: joined is the text so far
mapJoin(parts, k, joined, tb) ==
    IF k > Len(parts) THEN [ret |-> joined, tb |-> tb]
    ELSE IF isWhiteSpaceRun(parts[k])
        THEN mapJoin(parts, k + 1, joined \o parts[k], tb)
    ELSE
        LET hyphenated == hyphenateWord(parts[k], tb)
        IN  mapJoin(parts, k + 1, joined \o hyphenated.ret, hyphenated.tb)

\* mutant: the text is handed to hyphenateWord as one word
hyphenateText_whole(text, tb) ==
    [ret |-> hyphenateWord(text, tb).ret, tb |-> hyphenateWord(text, tb).tb]

\* ret: the string returned; tb: the three module-level arrays afterwards
hyphenateText(text, tb) == mapJoin(split(text), 1, <<>>, tb)

----------------------------------------------------------------------------
(* The callers: one process that calls hyphenateWord on a word and then on *)
(* what it returned (Spec), or hyphenateText on a text (SpecText).         *)

Letters == {"a", "b", "r", "s", "B"}

MixedChars == {"a", "b", "-", "shy", "1"}

TextChars == {"a", "b", " ", "tab", "shy"}

SeqsUpTo(S, n) == UNION {[1..m -> S] : m \in 0..n}

\* the words of the scenarios, ROT, HAMBURG, SCHOEN (o-umlaut), E-MAIL; words
\* of the puzzle boards, ASCHENPUTTEL, PUMPERNICKEL, FRUEHLING (u-umlaut);
\* mission, whose prefix "miss" and suffix "sion" overlap; and words that
\* meet the affix tables and the rules in other ways: BEITRAG and BEIDE
\* (prefixes "bei" and "be"), ERBSCHAFT and ABSCHAFT (suffixes "schaft" and
\* "haft"), UEBUNG (u-umlaut; "ung" after two characters), DEUTSCHLAND
\* ("schl"), KASSETTE ("ss" and "tt"), AQUARIUM ("qu" between vowels),
\* EINSAM (prefix "ein" and suffix "sam" meet)
Samples ==
    { <<"R","O","T">>, <<"H","A","M","B","U","R","G">>,
      <<"S","C","H","OE","N">>, <<"E","-","M","A","I","L">>,
      <<"A","S","C","H","E","N","P","U","T","T","E","L">>,
      <<"P","U","M","P","E","R","N","I","C","K","E","L">>,
      <<"F","R","UE","H","L","I","N","G">>,
      <<"m","i","s","s","i","o","n">>,
      <<"B","E","I","T","R","A","G">>, <<"B","E","I","D","E">>,
      <<"E","R","B","S","C","H","A","F","T">>,
      <<"A","B","S","C","H","A","F","T">>,
      <<"UE","B","U","N","G">>,
      <<"D","E","U","T","S","C","H","L","A","N","D">>,
      <<"K","A","S","S","E","T","T","E">>,
      <<"A","Q","U","A","R","I","U","M">>,
      <<"E","I","N","S","A","M">> }

Words == SeqsUpTo(Letters, MaxLen) \cup SeqsUpTo(MixedChars, MaxMixedLen)
            \cup Samples

\* the text of scenario 5: HAMBURG IST SCHOEN (o-umlaut)
SampleText ==
    <<"H","A","M","B","U","R","G"," ","I","S","T"," ","S","C","H","OE","N">>

Texts == SeqsUpTo(TextChars, MaxTextLen) \cup {SampleText}

Tables ==
    [PREFIXES |-> PREFIXES, SUFFIXES |-> SUFFIXES,
     INSEPARABLE_CLUSTERS |-> INSEPARABLE_CLUSTERS]

\* the arrays as the module initialises them
InitialTables ==
    [PREFIXES |-> PREFIXES_INIT, SUFFIXES |-> SUFFIXES_INIT,
     INSEPARABLE_CLUSTERS |-> INSEPARABLE_CLUSTERS_INIT]

setTables(tb) ==
    /\ PREFIXES' = tb.PREFIXES
    /\ SUFFIXES' = tb.SUFFIXES
    /\ INSEPARABLE_CLUSTERS' = tb.INSEPARABLE_CLUSTERS

\* the locals before a statement-by-statement call starts
NoFrame ==
    [parts |-> <<>>, k |-> 0, mapped |-> <<>>, word |-> <<>>,
     lowerWord |-> <<>>, boundaries |-> <<>>, prefixEnd |-> 0,
     suffixStart |-> 0, idx |-> 0, i |-> 0, ci |-> 0, result |-> <<>>,
     j |-> 0, mapIters |-> 0, loopIters |-> 0, innerIters |-> 0,
     steps |-> 0]

\* no triple was put before the rules
NoTriple == [prev |-> "undefined", curr |-> "undefined", next |-> "undefined",
             rules |-> {}, branch |-> "none", boundaries |-> <<>>]

\* no board was loaded and no game created
NoBoard == [words |-> <<>>, groups |-> <<>>]

NoGame ==
    [remainingWords |-> <<>>, solvedGroups |-> <<>>, selectedWords |-> <<>>,
     mistakesRemaining |-> 0, isComplete |-> FALSE, won |-> FALSE,
     attempts |-> <<>>]

\* no call of the series was made yet
NoCall == [word |-> <<>>, ret |-> <<>>, boundaries |-> <<>>, sorted |-> FALSE]

InitTables ==
    /\ PREFIXES = PREFIXES_INIT
    /\ SUFFIXES = SUFFIXES_INIT
    /\ INSEPARABLE_CLUSTERS = INSEPARABLE_CLUSTERS_INIT

Init ==
    /\ InitTables
    /\ pc = "start"
    /\ inputWord \in Words
    /\ output = <<>>
    /\ foundBoundaries = <<>>
    /\ called = FALSE
    /\ output2 = <<>>
    /\ inputText = <<>>
    /\ textOutput = <<>>
    /\ frame = NoFrame
    /\ lastCall = NoCall
    /\ triple = NoTriple
    /\ board = NoBoard
    /\ gameState = NoGame

\* output = hyphenateWord(inputWord)
CallHyphenateWord ==
    /\ pc = "start"
    /\ \E r \in {hyphenateWord(inputWord, Tables)} :
           /\ output' = r.ret
           /\ foundBoundaries' = r.boundaries
           /\ called' = r.called
           /\ setTables(r.tb)
    /\ pc' = "once"
    /\ UNCHANGED <<inputWord, output2, inputText, textOutput, frame, lastCall,
          triple, board, gameState>>

\* output2 = hyphenateWord(output)
CallHyphenateWordAgain ==
    /\ pc = "once"
    /\ \E r \in {hyphenateWord(output, Tables)} :
           /\ output2' = r.ret
           /\ setTables(r.tb)
    /\ pc' = "twice"
    /\ UNCHANGED <<inputWord, output, foundBoundaries, called, inputText,
                   textOutput, frame, lastCall,
          triple, board, gameState>>

Next == CallHyphenateWord \/ CallHyphenateWordAgain

Spec == Init /\ [][Next]_vars

InitText ==
    /\ InitTables
    /\ pc = "start"
    /\ inputText \in Texts
    /\ textOutput = <<>>
    /\ inputWord = <<>>
    /\ output = <<>>
    /\ foundBoundaries = <<>>
    /\ called = FALSE
    /\ output2 = <<>>
    /\ frame = NoFrame
    /\ lastCall = NoCall
    /\ triple = NoTriple
    /\ board = NoBoard
    /\ gameState = NoGame

\* textOutput = hyphenateText(inputText)
CallHyphenateText ==
    /\ pc = "start"
    /\ \E r \in {hyphenateText(inputText, Tables)} :
           /\ textOutput' = r.ret
           /\ setTables(r.tb)
    /\ pc' = "done"
    /\ UNCHANGED <<inputWord, output, foundBoundaries, called, output2,
                   inputText, frame, lastCall,
          triple, board, gameState>>

NextText == CallHyphenateText

SpecText == InitText /\ [][NextText]_vars

----------------------------------------------------------------------------
(* Any number of hyphenateWord calls, made by any number of tasks          *)
(* (SpecCalls).  hyphenateWord is synchronous, it has no await and no      *)
(* callback into the event loop, so JavaScript runs each call to           *)
(* completion before the next one starts: an interleaving of the tasks is  *)
(* an order of their calls.  The arrays are the only state a call leaves   *)
(* behind.                                                                 *)

CallChars == {"a", "t"}

CallWords == SeqsUpTo(CallChars, MaxLen) \cup Samples

InitCalls ==
    /\ InitTables
    /\ pc = "start"
    /\ inputText = <<>>
    /\ textOutput = <<>>
    /\ inputWord = <<>>
    /\ output = <<>>
    /\ foundBoundaries = <<>>
    /\ called = FALSE
    /\ output2 = <<>>
    /\ frame = NoFrame
    /\ lastCall = NoCall
    /\ triple = NoTriple
    /\ board = NoBoard
    /\ gameState = NoGame

\* the event loop runs the next call, whichever task made it; `sorted` tells
\* whether an earlier call had reordered one of the arrays
CallNext ==
    /\ \E word \in CallWords :
         \E r \in {hyphenateWord(word, Tables)} :
           /\ lastCall' = [word |-> word, ret |-> r.ret,
                           boundaries |-> r.boundaries,
                           sorted |-> Tables # InitialTables]
           /\ setTables(r.tb)
    /\ pc' = "called"
    /\ UNCHANGED <<inputWord, output, foundBoundaries, called, output2,
                   inputText, textOutput, frame, triple, board, gameState>>

NextCalls == CallNext

SpecCalls == InitCalls /\ [][NextCalls]_vars

----------------------------------------------------------------------------
\* One iteration of the scan loop on three characters: the loop body reads
\* lowerWord[i - 1], lowerWord[i] and lowerWord[i + 1] only to choose a rule.
TripleChars ==
    Range(LowerLetters) \cup {"sz", "A", "B", "S", "-", "undefined"}

InitTriples ==
    /\ InitTables
    /\ pc = "start"
    /\ triple \in {[NoTriple EXCEPT !.prev = p, !.curr = c, !.next = n] :
                       p \in TripleChars, c \in TripleChars, n \in TripleChars}
    /\ board = NoBoard
    /\ gameState = NoGame
    /\ inputWord = <<>>
    /\ output = <<>>
    /\ foundBoundaries = <<>>
    /\ called = FALSE
    /\ output2 = <<>>
    /\ inputText = <<>>
    /\ textOutput = <<>>
    /\ frame = NoFrame
    /\ lastCall = NoCall

\* the iteration at i = 1 of the loop over the string prev + curr + next
TryRules ==
    /\ pc = "start"
    /\ \E scan \in {scanLoop(<<triple.prev, triple.curr, triple.next>>, 1, 3,
                              <<>>, INSEPARABLE_CLUSTERS)} :
          /\ triple' = [triple EXCEPT
                 !.rules = rulesHolding(triple.prev, triple.curr, triple.next),
                 !.branch = branchOf(triple.prev, triple.curr, triple.next),
                 !.boundaries = scan.boundaries]
          /\ INSEPARABLE_CLUSTERS' = scan.clusters
    /\ pc' = "tried"
    /\ UNCHANGED <<PREFIXES, SUFFIXES, inputWord, output, foundBoundaries,
                   called, output2, inputText, textOutput, frame, lastCall,
                   board, gameState>>

NextTriples == TryRules

SpecTriples == InitTriples /\ [][NextTriples]_vars

----------------------------------------------------------------------------
(* hyphenateText statement by statement (SpecSteps): every iteration of    *)
(* every loop of hyphenateText, hyphenateWord and findSyllableBoundaries   *)
(* is one step.  Library calls (split, sort, slice, includes, some, the    *)
(* regular expressions) are part of the step that makes them.  mapIters,   *)
(* loopIters and innerIters count the iterations begun of the map over the *)
(* parts, of the loop running inside the current hyphenateWord call, and   *)
(* of the loop over the clusters inside the scan loop; steps counts the    *)
(* steps of the whole call.                                                *)

MaxStepLen == 6

StepChars == {"a", "b", "r", " "}

StepTexts == SeqsUpTo(StepChars, MaxStepLen) \cup {SampleText} \cup Samples

RECURSIVE join(_)
\* parts.join('')
join(parts) == IF parts = <<>> THEN <<>> ELSE Head(parts) \o join(Tail(parts))

\* what a statement-by-statement call of hyphenateText leaves alone
callerVars ==
    <<inputWord, output, foundBoundaries, called, output2, inputText, lastCall,
          triple, board, gameState>>

\* the callback of map returns `value` for the current part
returnPart(value) ==
    [frame EXCEPT !.steps = @ + 1, !.mapped = Append(@, value), !.k = @ + 1]

\* mutant: the insertion loop counts up, i++ for i--
insertNext_up(j) == j + 1

\* the step  i--  of the insertion loop
insertNext(j) == j - 1

\* the step  i++  of the scan loop
scanNext(i) == i + 1

InitSteps ==
    /\ InitTables
    /\ pc = "start"
    /\ inputText \in StepTexts
    /\ textOutput = <<>>
    /\ inputWord = <<>>
    /\ output = <<>>
    /\ foundBoundaries = <<>>
    /\ called = FALSE
    /\ output2 = <<>>
    /\ frame = NoFrame
    /\ lastCall = NoCall
    /\ triple = NoTriple
    /\ board = NoBoard
    /\ gameState = NoGame

\* text.split(/(\s+)/)
SplitText ==
    /\ pc = "start"
    /\ frame' = [frame EXCEPT !.steps = @ + 1,
                              !.parts = split(inputText)]
    /\ pc' = "map"
    /\ UNCHANGED <<tables, textOutput, callerVars>>

\* no part is left: join('') and return
JoinParts ==
    /\ pc = "map"
    /\ frame.k = Len(frame.parts)
    /\ textOutput' = join(frame.mapped)
    /\ pc' = "done"
    /\ frame' = [frame EXCEPT !.steps = @ + 1]
    /\ UNCHANGED <<tables, callerVars>>

\* the callback of map on a whitespace run
MapWhiteSpace ==
    /\ pc = "map"
    /\ frame.k < Len(frame.parts)
    /\ isWhiteSpaceRun(frame.parts[frame.k + 1])
    /\ frame' = [returnPart(frame.parts[frame.k + 1]) EXCEPT !.mapIters = @ + 1]
    /\ UNCHANGED <<tables, textOutput, pc, callerVars>>

\* the callback of map on any other part: hyphenateWord(part) is entered
MapWord ==
    /\ pc = "map"
    /\ frame.k < Len(frame.parts)
    /\ ~isWhiteSpaceRun(frame.parts[frame.k + 1])
    /\ frame' = [frame EXCEPT !.steps = @ + 1,
                              !.word = frame.parts[frame.k + 1],
                              !.mapIters = @ + 1]
    /\ pc' = "guards"
    /\ UNCHANGED <<tables, textOutput, callerVars>>

\* one of the early returns of hyphenateWord
ReturnEarly ==
    /\ pc = "guards"
    /\ returnsEarly(frame.word)
    /\ frame' = returnPart(frame.word)
    /\ pc' = "map"
    /\ UNCHANGED <<tables, textOutput, callerVars>>

\* findSyllableBoundaries is entered, up to the head of the prefix loop
\* (a word that passed the guards has 5 characters or more)
EnterFind ==
    /\ pc = "guards"
    /\ ~returnsEarly(frame.word)
    /\ Len(frame.word) >= 4
    /\ PREFIXES' = sortByLengthDesc(PREFIXES)
    /\ frame' = [frame EXCEPT !.steps = @ + 1,
                              !.lowerWord = toLowerCase(frame.word),
                              !.boundaries = <<>>, !.prefixEnd = 0,
                              !.idx = 0, !.loopIters = 0]
    /\ pc' = "prefix"
    /\ UNCHANGED <<SUFFIXES, INSEPARABLE_CLUSTERS, textOutput, callerVars>>

\* what leaving the prefix loop with prefixEnd = n does: the suffix loop is
\* entered
enterSuffixLoop(n) ==
    /\ SUFFIXES' = sortByLengthDesc(SUFFIXES)
    /\ frame' = [frame EXCEPT !.steps = @ + 1,
                              !.prefixEnd = n,
                              !.boundaries = IF n = 0 THEN @ ELSE push(@, n),
                              !.suffixStart = Len(frame.word),
                              !.idx = 0, !.loopIters = 0]
    /\ pc' = "suffix"
    /\ UNCHANGED <<PREFIXES, INSEPARABLE_CLUSTERS, textOutput, callerVars>>

\* an iteration of the prefix loop that does not take the prefix
PrefixSkip ==
    /\ pc = "prefix"
    /\ frame.idx < Len(PREFIXES)
    /\ ~prefixFits(frame.word, PREFIXES[frame.idx + 1])
    /\ frame' = [frame EXCEPT !.steps = @ + 1,
                              !.idx = @ + 1, !.loopIters = @ + 1]
    /\ UNCHANGED <<tables, textOutput, pc, callerVars>>

\* the iteration of the prefix loop that takes the prefix and breaks
PrefixHit ==
    /\ pc = "prefix"
    /\ frame.idx < Len(PREFIXES)
    /\ prefixFits(frame.word, PREFIXES[frame.idx + 1])
    /\ enterSuffixLoop(Len(PREFIXES[frame.idx + 1]))

\* the prefix loop runs out of prefixes
PrefixEnd ==
    /\ pc = "prefix"
    /\ frame.idx = Len(PREFIXES)
    /\ enterSuffixLoop(0)

\* what leaving the suffix loop with suffixStart = n does: the scan loop is
\* entered
enterScanLoop(n) ==
    /\ frame' = [frame EXCEPT !.steps = @ + 1,
                              !.suffixStart = n, !.i = frame.prefixEnd + 1,
                              !.loopIters = 0]
    /\ pc' = "scan"
    /\ UNCHANGED <<tables, textOutput, callerVars>>

\* an iteration of the suffix loop that does not take the suffix
SuffixSkip ==
    /\ pc = "suffix"
    /\ frame.idx < Len(SUFFIXES)
    /\ ~suffixFits(frame.word, SUFFIXES[frame.idx + 1])
    /\ frame' = [frame EXCEPT !.steps = @ + 1,
                              !.idx = @ + 1, !.loopIters = @ + 1]
    /\ UNCHANGED <<tables, textOutput, pc, callerVars>>

\* the iteration of the suffix loop that takes the suffix and breaks
SuffixHit ==
    /\ pc = "suffix"
    /\ frame.idx < Len(SUFFIXES)
    /\ suffixFits(frame.word, SUFFIXES[frame.idx + 1])
    /\ enterScanLoop(Len(frame.word) - Len(SUFFIXES[frame.idx + 1]))

\* the suffix loop runs out of suffixes
SuffixEnd ==
    /\ pc = "suffix"
    /\ frame.idx = Len(SUFFIXES)
    /\ enterScanLoop(Len(frame.word))

\* mutant: the loop condition is i < end
scanning_toEnd == pc = "scan" /\ frame.i < frame.suffixStart

\* the scan loop is at an offset it has to look at
scanning == pc = "scan" /\ frame.i < frame.suffixStart - 1

prevChar == charAt(frame.lowerWord, frame.i - 1)

currChar == charAt(frame.lowerWord, frame.i)

nextChar == charAt(frame.lowerWord, frame.i + 1)

\* which branch the iteration at offset frame.i takes
scanBranch ==
    IF includesNumber(frame.boundaries, frame.i) THEN "continue"
    ELSE branchOf(prevChar, currChar, nextChar)

\* the iteration at offset frame.i ends: the boundaries are now `found`
endIteration(found) ==
    /\ frame' = [frame EXCEPT !.steps = @ + 1,
                              !.boundaries = found, !.i = scanNext(@)]
    /\ pc' = "scan"

\* an iteration of the scan loop in which no rule matches (or the offset is
\* a boundary already)
ScanPlain ==
    /\ scanning
    /\ scanBranch \in {"continue", "none"}
    /\ frame' = [frame EXCEPT !.steps = @ + 1,
                              !.i = scanNext(@), !.loopIters = @ + 1]
    /\ UNCHANGED <<tables, textOutput, pc, callerVars>>

\* the V-CV rule matches: the cluster array is sorted and its loop entered
ScanVCV ==
    /\ scanning
    /\ scanBranch = "vcv"
    /\ INSEPARABLE_CLUSTERS' = sortByLengthDesc(INSEPARABLE_CLUSTERS)
    /\ frame' = [frame EXCEPT !.steps = @ + 1,
                              !.ci = 0, !.innerIters = 0, !.loopIters = @ + 1]
    /\ pc' = "vcvClusters"
    /\ UNCHANGED <<PREFIXES, SUFFIXES, textOutput, callerVars>>

\* an iteration of the cluster loop of the V-CV rule without a hit
VcvClusterSkip ==
    /\ pc = "vcvClusters"
    /\ frame.ci < Len(INSEPARABLE_CLUSTERS)
    /\ ~startsWith(slice(frame.lowerWord, frame.i, frame.i + 4),
                   INSEPARABLE_CLUSTERS[frame.ci + 1])
    /\ frame' = [frame EXCEPT !.steps = @ + 1,
                              !.ci = @ + 1, !.innerIters = @ + 1]
    /\ UNCHANGED <<tables, textOutput, pc, callerVars>>

\* mutant: an offset at which a cluster starts is not pushed
VcvClusterEnd_suppressed ==
    /\ pc = "vcvClusters"
    /\ IF frame.ci < Len(INSEPARABLE_CLUSTERS)
       THEN /\ startsWith(slice(frame.lowerWord, frame.i, frame.i + 4),
                          INSEPARABLE_CLUSTERS[frame.ci + 1])
            /\ endIteration(frame.boundaries)
       ELSE endIteration(pushIfNew(frame.boundaries, frame.i))
    /\ UNCHANGED <<tables, textOutput, callerVars>>

\* the cluster loop of the V-CV rule breaks or runs out: the offset is pushed
VcvClusterEnd ==
    /\ pc = "vcvClusters"
    /\ IF frame.ci < Len(INSEPARABLE_CLUSTERS)
       THEN startsWith(slice(frame.lowerWord, frame.i, frame.i + 4),
                       INSEPARABLE_CLUSTERS[frame.ci + 1])
       ELSE TRUE
    /\ endIteration(pushIfNew(frame.boundaries, frame.i))
    /\ UNCHANGED <<tables, textOutput, callerVars>>

\* the two-consonants rule matches: the cluster loop is entered
ScanCC ==
    /\ scanning
    /\ scanBranch = "cc"
    /\ frame' = [frame EXCEPT !.steps = @ + 1,
                              !.ci = 0, !.innerIters = 0, !.loopIters = @ + 1]
    /\ pc' = "ccClusters"
    /\ UNCHANGED <<tables, textOutput, callerVars>>

\* an iteration of the cluster loop of the two-consonants rule without a hit
CcClusterSkip ==
    /\ pc = "ccClusters"
    /\ frame.ci < Len(INSEPARABLE_CLUSTERS)
    /\ ~includes(slice(frame.lowerWord, frame.i - 1, frame.i + 2),
                 INSEPARABLE_CLUSTERS[frame.ci + 1])
    /\ frame' = [frame EXCEPT !.steps = @ + 1,
                              !.ci = @ + 1, !.innerIters = @ + 1]
    /\ UNCHANGED <<tables, textOutput, pc, callerVars>>

\* the window holds a cluster: isCluster = true, break, nothing is pushed
CcClusterHit ==
    /\ pc = "ccClusters"
    /\ frame.ci < Len(INSEPARABLE_CLUSTERS)
    /\ includes(slice(frame.lowerWord, frame.i - 1, frame.i + 2),
                INSEPARABLE_CLUSTERS[frame.ci + 1])
    /\ endIteration(frame.boundaries)
    /\ UNCHANGED <<tables, textOutput, callerVars>>

\* the cluster loop runs out: the offset is pushed if a vowel is on each side
CcClusterEnd ==
    /\ pc = "ccClusters"
    /\ frame.ci = Len(INSEPARABLE_CLUSTERS)
    /\ endIteration(IF /\ ~includesNumber(frame.boundaries, frame.i)
                       /\ hasVowelBothSides(frame.lowerWord, frame.i)
                    THEN push(frame.boundaries, frame.i)
                    ELSE frame.boundaries)
    /\ UNCHANGED <<tables, textOutput, callerVars>>

\* the double-consonant rule matches
ScanDouble ==
    /\ scanning
    /\ scanBranch = "double"
    /\ frame' = [frame EXCEPT !.steps = @ + 1,
                              !.boundaries = pushIfNew(@, frame.i),
                              !.i = scanNext(@), !.loopIters = @ + 1]
    /\ UNCHANGED <<tables, textOutput, pc, callerVars>>

\* the array findSyllableBoundaries returns once the scan loop is over
returned ==
    sortAscending(addSuffixBoundary(frame.word, frame.suffixStart,
                                    frame.boundaries))

\* the scan loop is over and no boundary was found: hyphenateWord returns word
ScanEndNone ==
    /\ pc = "scan"
    /\ ~(frame.i < frame.suffixStart - 1)
    /\ Len(returned) = 0
    /\ frame' = [returnPart(frame.word) EXCEPT !.boundaries = returned]
    /\ pc' = "map"
    /\ UNCHANGED <<tables, textOutput, callerVars>>

\* the scan loop is over: the insertion loop of hyphenateWord is entered
ScanEndSome ==
    /\ pc = "scan"
    /\ ~(frame.i < frame.suffixStart - 1)
    /\ Len(returned) # 0
    /\ frame' = [frame EXCEPT !.steps = @ + 1,
                              !.boundaries = returned, !.result = frame.word,
                              !.j = Len(returned) - 1, !.loopIters = 0]
    /\ pc' = "insert"
    /\ UNCHANGED <<tables, textOutput, callerVars>>

\* an iteration of the insertion loop; boundaries[i] past the end of the
\* array is undefined, and every comparison with it is false
InsertStep ==
    /\ pc = "insert"
    /\ frame.j >= 0
    /\ frame' =
        [frame EXCEPT
            !.steps = @ + 1,
            !.result =
                IF /\ frame.j < Len(frame.boundaries)
                   /\ marksAt(@, frame.boundaries[frame.j + 1])
                THEN slice(@, 0, frame.boundaries[frame.j + 1])
                         \o <<SOFT_HYPHEN>>
                         \o sliceFrom(@, frame.boundaries[frame.j + 1])
                ELSE @,
            !.j = insertNext(@),
            !.loopIters = @ + 1]
    /\ UNCHANGED <<tables, textOutput, pc, callerVars>>

\* the insertion loop is over: hyphenateWord returns result
InsertEnd ==
    /\ pc = "insert"
    /\ ~(frame.j >= 0)
    /\ frame' = returnPart(frame.result)
    /\ pc' = "map"
    /\ UNCHANGED <<tables, textOutput, callerVars>>

NextSteps ==
    \/ SplitText \/ JoinParts \/ MapWhiteSpace \/ MapWord
    \/ ReturnEarly \/ EnterFind
    \/ PrefixSkip \/ PrefixHit \/ PrefixEnd
    \/ SuffixSkip \/ SuffixHit \/ SuffixEnd
    \/ ScanPlain \/ ScanVCV \/ VcvClusterSkip \/ VcvClusterEnd
    \/ ScanCC \/ CcClusterSkip \/ CcClusterHit \/ CcClusterEnd
    \/ ScanDouble \/ ScanEndNone \/ ScanEndSome
    \/ InsertStep \/ InsertEnd

\* a call, once started, keeps running: nothing in it waits for anything
SpecSteps == InitSteps /\ [][NextSteps]_vars /\ WF_vars(NextSteps)

----------------------------------------------------------------------------
(* What the properties below talk about.                                   *)

\* s with every U+00AD deleted
stripMarkers(s) == SelectSeq(s, LAMBDA c : c # SOFT_HYPHEN)

\* the offsets, counted in the characters that are not markers, in front of
\* which s holds a marker
markerOffsets(s) ==
    { Cardinality({j \in 1..(k - 1) : s[j] # SOFT_HYPHEN}) :
        k \in {k \in DOMAIN s : s[k] = SOFT_HYPHEN} }

\* the offsets of the markers the first call inserted into inputWord
insertedOffsets == IF output = inputWord THEN {} ELSE markerOffsets(output)

RECURSIVE isInsertionOf(_, _)
\* out is s with zero or more U+00AD inserted, every character of s kept
isInsertionOf(out, s) ==
    IF out = <<>> THEN s = <<>>
    ELSE \/ /\ s # <<>>
            /\ Head(out) = Head(s)
            /\ isInsertionOf(Tail(out), Tail(s))
         \/ /\ Head(out) = SOFT_HYPHEN
            /\ isInsertionOf(Tail(out), s)

hasMarker(s) == \E k \in DOMAIN s : s[k] = SOFT_HYPHEN

hasUpperCase(s) == \E k \in DOMAIN s : s[k] \in DOMAIN LowerOf

\* the boundaries (as indices of the array) that leave at least 2 characters
\* of the word w on each side
survivors(w, bnd) == {k \in DOMAIN bnd : 2 <= bnd[k] /\ bnd[k] <= Len(w) - 2}

RECURSIVE runsOf(_)
\* s cut into its maximal runs of whitespace and of non-whitespace, in order
runsOf(s) ==
    IF s = <<>> THEN <<>>
    ELSE
        LET blank == s[1] \in WhiteSpace
            other == {k \in DOMAIN s : (s[k] \in WhiteSpace) # blank}
            n == IF other = {} THEN Len(s)
                 ELSE (CHOOSE k \in other : \A j \in other : k <= j) - 1
        IN  <<SubSeq(s, 1, n)>> \o runsOf(SubSeq(s, n + 1, Len(s)))

whiteSpaceRuns(s) == SelectSeq(runsOf(s), LAMBDA r : r[1] \in WhiteSpace)

RECURSIVE runByRun(_, _)
\* the runs from index k on, each whitespace run as it is and each other run
\* as hyphenateWord returns it when called on its own
runByRun(runs, k) ==
    IF k > Len(runs) THEN <<>>
    ELSE (IF runs[k][1] \in WhiteSpace THEN runs[k]
          ELSE hyphenateWord(runs[k], InitialTables).ret)
             \o runByRun(runs, k + 1)

----------------------------------------------------------------------------
(* Properties of hyphenateWord (under Spec).                               *)

\* C1 (idempotence): hyphenateWord applied to what hyphenateWord returned
\* returns it unchanged: the second call adds, moves or removes no marker.
C1_Idempotent == pc = "twice" => output2 = output

\* C1 witness: the first call inserted markers and the second call ran.
C1_Witness ==
    /\ pc = "twice"
    /\ hasMarker(output)
    /\ ~hasMarker(inputWord)
    /\ output2 = output

\* C2 as claimed (round trip for every string, also one that already holds
\* U+00AD): deleting all U+00AD from hyphenateWord(w) gives w.
C2_RoundTripAnyString == pc = "once" => stripMarkers(output) = inputWord

\* C2 amended (round trip): for every string w that holds no U+00AD,
\* deleting all U+00AD from hyphenateWord(w) gives exactly w.
C2_RoundTrip ==
    (pc = "once" /\ ~hasMarker(inputWord)) => stripMarkers(output) = inputWord

\* C2 witness: a word without markers came back with two markers or more.
C2_Witness ==
    /\ pc = "once"
    /\ ~hasMarker(inputWord)
    /\ Len(output) >= Len(inputWord) + 2
    /\ stripMarkers(output) = inputWord

\* C3 as claimed (boundary bounds, strict): every inserted marker sits at an
\* offset p of the original word with 2 < p < length - 2.
C3_BoundsStrict ==
    pc = "once" =>
        \A p \in insertedOffsets : 2 < p /\ p < Len(inputWord) - 2

\* C3 amended (boundary bounds): every inserted marker sits at an offset p of
\* the original word with 2 <= p <= length - 2.
C3_Bounds ==
    pc = "once" =>
        \A p \in insertedOffsets : 2 <= p /\ p <= Len(inputWord) - 2

\* C3 witness: one word got a marker at offset 2 and one at length - 2.
C3_Witness ==
    /\ pc = "once"
    /\ called
    /\ Len(inputWord) >= 6
    /\ 2 \in insertedOffsets
    /\ (Len(inputWord) - 2) \in insertedOffsets

\* C5 (only inserts): the output is the input with U+00AD characters
\* inserted, every original character kept in order and case, and it is
\* longer than the input by the number of boundaries that leave at least 2
\* characters of the word on each side.
C5_OnlyInserts ==
    pc = "once" =>
        /\ isInsertionOf(output, inputWord)
        /\ Len(output) = Len(inputWord)
               + Cardinality(survivors(inputWord, foundBoundaries))

\* C5 witness: a word with a capital letter got a marker, and one of its
\* boundaries did not survive the clamp.
C5_Witness ==
    /\ pc = "once"
    /\ called
    /\ hasUpperCase(inputWord)
    /\ Len(output) > Len(inputWord)
    /\ Cardinality(survivors(inputWord, foundBoundaries)) < Len(foundBoundaries)

\* C6 (minimum length): a word of fewer than 5 characters is returned
\* unchanged, whatever its characters are.
C6_MinimumLength == (pc = "once" /\ Len(inputWord) < 5) => output = inputWord

\* C6 witness: a word of 4 letters, with a vowel-consonant-vowel pattern at
\* offset 2, came back unchanged.
C6_Witness ==
    /\ pc = "once"
    /\ Len(inputWord) = 4
    /\ isGermanWord(inputWord)
    /\ ruleVCV(toLowerCase(inputWord)[2], toLowerCase(inputWord)[3],
               toLowerCase(inputWord)[4])
    /\ output = inputWord

\* C7 (idempotence guard): a word that holds a hyphen or U+00AD is returned
\* unchanged, and findSyllableBoundaries is not run for it.
C7_HyphenGuard ==
    (pc = "once" /\ ("-" \in Range(inputWord) \/ "shy" \in Range(inputWord)))
        => (output = inputWord /\ ~called /\ foundBoundaries = <<>>)

\* C7 witness: E-MAIL came back as E-MAIL.
C7_Witness ==
    /\ pc = "once"
    /\ inputWord = <<"E","-","M","A","I","L">>
    /\ output = <<"E","-","M","A","I","L">>
    /\ ~called

\* C8 (alphabet guard): a word that holds a character outside the German
\* alphabet is returned unchanged, and findSyllableBoundaries is not run.
C8_AlphabetGuard ==
    (pc = "once" /\ \E k \in DOMAIN inputWord :
                        inputWord[k] \notin GermanLetters)
        => (output = inputWord /\ ~called)

\* C8 witness: a word of 5 characters, letters and a digit, with no hyphen
\* and no marker, came back unchanged.
C8_Witness ==
    /\ pc = "once"
    /\ Len(inputWord) >= 5
    /\ "1" \in Range(inputWord)
    /\ Range(inputWord) \subseteq {"a", "b", "1"}
    /\ output = inputWord

----------------------------------------------------------------------------
(* Properties of hyphenateText (under SpecText).                           *)

\* C4 as claimed (whitespace preservation for every text): deleting all
\* U+00AD from hyphenateText(text) gives text, and the whitespace runs are
\* the same, in the same order.
C4_PreservesAnyText ==
    pc = "done" =>
        /\ stripMarkers(textOutput) = inputText
        /\ whiteSpaceRuns(textOutput) = whiteSpaceRuns(inputText)

\* C4 amended (whitespace preservation): for every text that holds no
\* U+00AD, deleting all U+00AD from hyphenateText(text) gives exactly text;
\* and for every text, the whitespace runs of the output are those of the
\* input, with the same content and in the same order.
C4_Preserves ==
    pc = "done" =>
        /\ ~hasMarker(inputText) => stripMarkers(textOutput) = inputText
        /\ whiteSpaceRuns(textOutput) = whiteSpaceRuns(inputText)

\* C4 witness: a text with two different whitespace characters got a marker.
C4_Witness ==
    /\ pc = "done"
    /\ ~hasMarker(inputText)
    /\ hasMarker(textOutput)
    /\ " " \in Range(inputText)
    /\ "tab" \in Range(inputText)

\* C10 (run by run): hyphenateText returns the maximal whitespace runs of the
\* text unchanged and every maximal non-whitespace run r as hyphenateWord(r),
\* concatenated in the original order.
C10_RunByRun == pc = "done" => textOutput = runByRun(runsOf(inputText), 1)

\* C10 witness: HAMBURG IST SCHOEN came back as HAM + U+00AD + BURG IST SCHOEN.
C10_Witness ==
    /\ pc = "done"
    /\ inputText = SampleText
    /\ textOutput = <<"H","A","M","shy","B","U","R","G"," ","I","S","T"," ",
                      "S","C","H","OE","N">>

----------------------------------------------------------------------------
(* Properties of the calls run statement by statement (under SpecSteps).   *)

\* no loop has begun more iterations than its array or its word has entries
\* (the map over the parts: than the text has characters, plus 2 for the
\* empty pieces at its edges)
loopsBounded ==
    /\ frame.mapIters <= Len(inputText) + 2
    /\ pc = "prefix" => frame.loopIters <= Len(PREFIXES)
    /\ pc = "suffix" => frame.loopIters <= Len(SUFFIXES)
    /\ pc \in {"scan", "vcvClusters", "ccClusters", "insert"}
          => frame.loopIters <= Len(frame.word)
    /\ pc \in {"vcvClusters", "ccClusters"}
          => frame.innerIters <= Len(INSEPARABLE_CLUSTERS)

\* the steps a call on `text` can take at most: per part, both affix loops
\* in full; per character, the cluster loop in full
maxSteps(text) ==
    2 + (Len(text) + 2) * (Len(PREFIXES) + Len(SUFFIXES) + 7)
      + Len(text) * (Len(INSEPARABLE_CLUSTERS) + 3)

\* C9 (totality and termination): in every state of a call of hyphenateText
\* (and of the calls of hyphenateWord it makes), either the call has
\* returned, and returned the string the function defines, or a next
\* statement can run; the call has taken no more steps than the length of
\* the text and the sizes of the tables allow, and no loop has begun more
\* iterations than the length of its word or the size of its table.
C9_Terminates ==
    /\ loopsBounded
    /\ frame.steps <= maxSteps(inputText)
    /\ pc = "done" \/ ENABLED NextSteps
    /\ pc = "done"
          => textOutput = hyphenateText(inputText, InitialTables).ret

\* C9 witness: the call on "mission", whose prefix "miss" ends after its
\* suffix "sion" starts, has returned, all loops run.
C9_Witness ==
    /\ pc = "done"
    /\ inputText = <<"m","i","s","s","i","o","n">>
    /\ frame.prefixEnd > frame.suffixStart
    /\ hasMarker(textOutput)

----------------------------------------------------------------------------
(* The shared tables.                                                      *)

\* C11 (tables are read-only): after any call of hyphenateWord the three
\* arrays PREFIXES, SUFFIXES and INSEPARABLE_CLUSTERS hold the entries they
\* were initialised with, in the order they were initialised with.
C11_TablesReadOnly ==
    /\ PREFIXES = PREFIXES_INIT
    /\ SUFFIXES = SUFFIXES_INIT
    /\ INSEPARABLE_CLUSTERS = INSEPARABLE_CLUSTERS_INIT

\* C12 (concurrency safety and determinism): whichever calls ran before it,
\* and however they left the arrays, every call of hyphenateWord returns
\* what the same call returns when it is the only call made after the module
\* is loaded.
C12_Deterministic ==
    pc = "called"
        => lastCall.ret = hyphenateWord(lastCall.word, InitialTables).ret

\* C12 witness: a call that ran after an earlier call had reordered the
\* arrays, on a word that has a prefix, and that inserted a marker
C12_Witness ==
    /\ pc = "called"
    /\ lastCall.sorted
    /\ lastCall.word = <<"B","E","I","T","R","A","G">>
    /\ hasMarker(lastCall.ret)

----------------------------------------------------------------------------
(* The rules of findSyllableBoundaries, stated on the locals of a call     *)
(* that runs statement by statement.  Offsets are JavaScript's.            *)

\* the scan loop of the current word is over: findSyllableBoundaries is
\* about to return the array `returned`
scanOver == pc = "scan" /\ ~scanning

\* the boundary set findSyllableBoundaries is about to return
boundarySet == Range(returned)

\* the offsets from prefixEnd + 1 up to suffixStart - 2
scannedOffsets == (frame.prefixEnd + 1)..(frame.suffixStart - 2)

\* the character at offset i of the word, classified without regard to case
letterAt(i) == toLowerCase(frame.word)[i + 1]

\* some entry of the cluster table occurs in the window of the three
\* characters at offsets i - 1, i and i + 1
clusterInWindow(i) ==
    \E k \in DOMAIN INSEPARABLE_CLUSTERS_INIT :
        \E from \in (i - 1)..(i + 1) :
            /\ from + Len(INSEPARABLE_CLUSTERS_INIT[k]) - 1 <= i + 1
            /\ from + Len(INSEPARABLE_CLUSTERS_INIT[k]) <= Len(frame.word)
            /\ \A j \in 1..Len(INSEPARABLE_CLUSTERS_INIT[k]) :
                   letterAt(from + j - 1) = INSEPARABLE_CLUSTERS_INIT[k][j]

vowelBefore(i) == \E j \in 0..(i - 1) : isVowel(letterAt(j))

vowelFrom(i) == \E j \in i..(Len(frame.word) - 1) : isVowel(letterAt(j))

twoDifferentConsonants(i) ==
    /\ isConsonant(letterAt(i - 1))
    /\ isConsonant(letterAt(i))
    /\ letterAt(i - 1) # letterAt(i)

clusterSpans(i) ==
    \E k \in DOMAIN INSEPARABLE_CLUSTERS_INIT :
        \E from \in 0..(i - 1) :
            /\ from + Len(INSEPARABLE_CLUSTERS_INIT[k]) - 1 >= i
            /\ from + Len(INSEPARABLE_CLUSTERS_INIT[k]) <= Len(frame.word)
            /\ \A j \in 1..Len(INSEPARABLE_CLUSTERS_INIT[k]) :
                   letterAt(from + j - 1) = INSEPARABLE_CLUSTERS_INIT[k][j]

\* C14 (cluster suppression): when findSyllableBoundaries returns, no
\* scanned offset i between two different consonants that an occurrence of a
\* cluster table entry spans, of whatever length the entry is, is in the
\* boundary set; and hyphenateText returns SCHOEN (o-umlaut) unchanged.
C14_ClusterSuppresses ==
    /\ scanOver =>
         \A i \in scannedOffsets :
            (twoDifferentConsonants(i) /\ clusterSpans(i))
                => i \notin boundarySet
    /\ (pc = "done" /\ inputText = <<"S","C","H","OE","N">>)
          => textOutput = <<"S","C","H","OE","N">>

\* the largest number of the set S of naturals, 0 for the empty set
largest(S) == IF S = {} THEN 0 ELSE CHOOSE n \in S : \A m \in S : m <= n

\* entry starts the word, case disregarded
startsWord(entry) ==
    /\ Len(entry) <= Len(frame.word)
    /\ \A j \in 1..Len(entry) : letterAt(j - 1) = entry[j]

\* entry ends the word, case disregarded
endsWord(entry) ==
    /\ Len(entry) <= Len(frame.word)
    /\ \A j \in 1..Len(entry) :
           letterAt(Len(frame.word) - Len(entry) + j - 1) = entry[j]

\* the length of the longest prefix table entry that starts the word and
\* leaves at least `rest` characters after it, 0 when there is none
longestPrefix(rest) ==
    largest({Len(PREFIXES_INIT[k]) :
                k \in {k \in DOMAIN PREFIXES_INIT :
                          /\ startsWord(PREFIXES_INIT[k])
                          /\ Len(frame.word) - Len(PREFIXES_INIT[k]) >= rest}})

\* the length of the longest suffix table entry that ends the word and
\* leaves at least `rest` characters before it, 0 when there is none
longestSuffix(rest) ==
    largest({Len(SUFFIXES_INIT[k]) :
                k \in {k \in DOMAIN SUFFIXES_INIT :
                          /\ endsWord(SUFFIXES_INIT[k])
                          /\ Len(frame.word) - Len(SUFFIXES_INIT[k]) >= rest}})

suffixBoundary(rest) ==
    scanOver =>
        IF longestSuffix(rest) # 0
        THEN /\ frame.suffixStart = Len(frame.word) - longestSuffix(rest)
             /\ frame.suffixStart > 1 => frame.suffixStart \in boundarySet
        ELSE /\ frame.suffixStart = Len(frame.word)
             /\ boundarySet = Range(frame.boundaries)

\* C16 as claimed (suffix boundary): when findSyllableBoundaries returns
\* for a word that ends with a suffix table entry with at least one character
\* before it, suffixStart is the length of the word less the length of the
\* longest such entry, and is in the boundary set when it is greater than 1;
\* otherwise suffixStart is the length of the word and the boundary set is
\* what the prefix and the scan recorded.
C16_SuffixLeavingOne == suffixBoundary(1)

\* C16 as amended (suffix boundary): the same with at least three characters
\* before the suffix.
C16_SuffixBoundary == suffixBoundary(3)

\* C16 witness: ABSCHAFT ends with "schaft", which leaves 2 characters, and
\* with "haft", which leaves 4: suffixStart is 4 and is a boundary
C16_Witness ==
    /\ scanOver
    /\ frame.word = <<"A","B","S","C","H","A","F","T">>
    /\ endsWord(<<"s","c","h","a","f","t">>)
    /\ frame.suffixStart = 4
    /\ 4 \in boundarySet
    /\ 4 \notin Range(frame.boundaries)

\* C17 (scan range): while the scan loop runs, the offset it is at lies in
\* prefixEnd + 1 .. suffixStart - 2 and the boundaries recorded so far are
\* prefixEnd or lie in that range; when findSyllableBoundaries returns, every
\* boundary is prefixEnd, suffixStart or an offset of that range.
C17_ScanRange ==
    /\ (scanning \/ pc \in {"vcvClusters", "ccClusters"})
          => frame.i \in scannedOffsets
    /\ pc \in {"scan", "vcvClusters", "ccClusters"}
          => Range(frame.boundaries)
                \subseteq ({frame.prefixEnd} \cup scannedOffsets)
    /\ scanOver
          => boundarySet \subseteq
                ({frame.prefixEnd, frame.suffixStart} \cup scannedOffsets)

\* C17 witness: in "arrbar" the suffix "bar" starts at 3; the doubled r at
\* offset 2, which is suffixStart - 1, is not scanned and 3 is the one
\* boundary
C17_Witness ==
    /\ scanOver
    /\ frame.word = <<"a","r","r","b","a","r">>
    /\ frame.suffixStart = 3
    /\ ruleDouble(letterAt(1), letterAt(2))
    /\ boundarySet = {3}

vowelConsonantVowel(i) ==
    /\ isVowel(letterAt(i - 1))
    /\ isConsonant(letterAt(i))
    /\ isVowel(letterAt(i + 1))

\* a cluster table entry starts at offset i of the word
clusterStartsAt(i) ==
    \E k \in DOMAIN INSEPARABLE_CLUSTERS_INIT :
        /\ i + Len(INSEPARABLE_CLUSTERS_INIT[k]) <= Len(frame.word)
        /\ \A j \in 1..Len(INSEPARABLE_CLUSTERS_INIT[k]) :
               letterAt(i + j - 1) = INSEPARABLE_CLUSTERS_INIT[k][j]

\* C18 (vowel-consonant-vowel rule): when findSyllableBoundaries returns,
\* every scanned offset i with a vowel at i - 1, a consonant at i and a vowel
\* at i + 1 is in the boundary set, whether or not a cluster table entry
\* starts at i.
C18_VowelConsonantVowel ==
    scanOver =>
        \A i \in scannedOffsets : vowelConsonantVowel(i) => i \in boundarySet

\* C18 witness: in AQUARIUM the cluster "qu" starts at offset 1, between two
\* vowels, and 1 is a boundary
C18_Witness ==
    /\ scanOver
    /\ frame.word = <<"A","Q","U","A","R","I","U","M">>
    /\ 1 \in scannedOffsets
    /\ vowelConsonantVowel(1)
    /\ clusterStartsAt(1)
    /\ 1 \in boundarySet

\* the characters at offsets i - 1 and i are the same consonant
doubledConsonant(i) ==
    isConsonant(letterAt(i - 1)) /\ letterAt(i) = letterAt(i - 1)

\* C19 (doubled-consonant rule): when findSyllableBoundaries returns, a
\* scanned offset i whose previous and current characters are the same
\* consonant is in the boundary set if that consonant is not "s" and is not
\* in it if that consonant is "s".
C19_DoubledConsonant ==
    scanOver =>
        \A i \in scannedOffsets :
            doubledConsonant(i) => (i \in boundarySet <=> letterAt(i) # "s")

\* C19 witness: in KASSETTE the scan passes "ss" at offset 3 and "tt" at
\* offset 6, and 6 is the one boundary
C19_Witness ==
    /\ scanOver
    /\ frame.word = <<"K","A","S","S","E","T","T","E">>
    /\ {3, 6} \subseteq scannedOffsets
    /\ doubledConsonant(3)
    /\ doubledConsonant(6)
    /\ boundarySet = {6}

\* C20 (boundary-set invariant): the array findSyllableBoundaries returned
\* to hyphenateWord is strictly increasing, so that no offset is in it
\* twice, and each of its offsets b satisfies 0 < b < length(word).
C20_BoundarySet ==
    (pc = "once" /\ called) =>
        /\ \A k \in 1..(Len(foundBoundaries) - 1) :
               foundBoundaries[k] < foundBoundaries[k + 1]
        /\ \A k \in DOMAIN foundBoundaries :
               0 < foundBoundaries[k] /\ foundBoundaries[k] < Len(inputWord)

\* C20 witness: in EINSAM the prefix "ein" ends where the suffix "sam"
\* starts, and the array returned is [3]
C20_Witness ==
    /\ pc = "once"
    /\ called
    /\ inputWord = <<"E","I","N","S","A","M">>
    /\ prefixEndOf(inputWord, PREFIXES) = 3
    /\ suffixStartOf(inputWord, SUFFIXES) = 3
    /\ foundBoundaries = <<3>>

----------------------------------------------------------------------------
(* The insertion loop of hyphenateWord (under SpecSteps).                  *)

\* boundary p leaves at least 2 characters of the current word on each side
leavesTwo(p) == 2 <= p /\ p <= Len(frame.word) - 2

\* C21 (insertion clamp): in the insertion loop, which takes the boundaries
\* in descending order, the test made on the partly marked result lets a
\* marker in for boundary p exactly when 2 <= p <= length(word) - 2; the
\* result so far is the word with one marker in front of the character at
\* each such p among the boundaries already taken, and nothing else changed.
C21_InsertionClamp ==
    pc = "insert" =>
        /\ (frame.j >= 0 /\ frame.j < Len(frame.boundaries))
              => (marksAt(frame.result, frame.boundaries[frame.j + 1])
                    <=> leavesTwo(frame.boundaries[frame.j + 1]))
        /\ markerOffsets(frame.result) =
              {frame.boundaries[k] :
                  k \in {k \in (frame.j + 2)..Len(frame.boundaries) :
                            leavesTwo(frame.boundaries[k])}}
        /\ Len(frame.result) =
              Len(frame.word) + Cardinality(markerOffsets(frame.result))
        /\ stripMarkers(frame.result) = frame.word

\* C21 witness: the loop is at a boundary that passes the test while the
\* result already holds a marker and is longer than the word, after a
\* boundary that did not pass
C21_Witness ==
    /\ pc = "insert"
    /\ frame.j = 1
    /\ Len(frame.boundaries) >= 3
    /\ hasMarker(frame.result)
    /\ marksAt(frame.result, frame.boundaries[2])
    /\ ~leavesTwo(frame.boundaries[1])

----------------------------------------------------------------------------
(* The output of hyphenateWord (under Spec).                               *)

\* the number of markers in s
markerCount(s) == Cardinality({k \in DOMAIN s : s[k] = SOFT_HYPHEN})

\* C22 (minimum syllable length): in what hyphenateWord returns for a word
\* it hyphenated, the piece before the first marker, each piece between two
\* consecutive markers and the piece after the last marker hold 2 or more
\* characters of the word: no two markers are adjacent or one character
\* apart.
C22_MinimumSyllable ==
    (pc = "once" /\ called) =>
        /\ markerCount(output) = Cardinality(insertedOffsets)
        /\ \A p \in insertedOffsets : 2 <= p /\ p <= Len(inputWord) - 2
        /\ \A p, q \in insertedOffsets : p < q => q - p >= 2

\* s with every small letter replaced by its capital; sharp s stays
upperCased(s) ==
    [k \in DOMAIN s |->
        IF \E j \in DOMAIN LowerLetters : LowerLetters[j] = s[k]
        THEN UpperLetters[CHOOSE j \in DOMAIN LowerLetters :
                              LowerLetters[j] = s[k]]
        ELSE s[k]]

\* C23 (case insensitivity, case preservation): for a word over the German
\* alphabet, the markers of hyphenateWord(word) sit at the offsets at which
\* hyphenateWord puts them for the lower-cased word and for the upper-cased
\* word, and the output without its markers is the word, every character
\* in its case.
C23_CaseInsensitive ==
    (pc = "once" /\ isGermanWord(inputWord)) =>
        /\ markerOffsets(output) =
              markerOffsets(
                  hyphenateWord(toLowerCase(inputWord), InitialTables).ret)
        /\ markerOffsets(output) =
              markerOffsets(
                  hyphenateWord(upperCased(inputWord), InitialTables).ret)
        /\ stripMarkers(output) = inputWord

\* C23 witness: a word with small and capital letters, which starts with
\* the prefix "ab" written aB, got a marker
C23_Witness ==
    /\ pc = "once"
    /\ isGermanWord(inputWord)
    /\ Len(inputWord) >= 5
    /\ inputWord[1] = "a"
    /\ inputWord[2] = "B"
    /\ 2 \in markerOffsets(output)
    /\ inputWord # toLowerCase(inputWord)
    /\ inputWord # upperCased(inputWord)

----------------------------------------------------------------------------
(* The puzzle reducer of src/utils/gameLogic.ts.  A GameState is a record,  *)
(* an array a sequence, null the record NoMatch.                            *)

MAX_MISTAKES == 4

WORDS_PER_GROUP == 4

\* Math.random() returns r / RandomScale for an r of RandomValues
RandomScale == 8

RandomValues == {0, 7}

\* [arr[i], arr[j]] = [arr[j], arr[i]] for the offsets i and j
swap(arr, i, j) ==
    [k \in DOMAIN arr |-> IF k = i + 1 THEN arr[j + 1]
                          ELSE IF k = j + 1 THEN arr[i + 1]
                          ELSE arr[k]]

RECURSIVE shuffleFrom(_, _, _)
\* the loop  for (let i = shuffled.length - 1; i > 0; i--)  from i on
shuffleFrom(shuffled, i, r) ==
    IF ~(i > 0) THEN shuffled
    ELSE shuffleFrom(swap(shuffled, i, (r * (i + 1)) \div RandomScale),
                     i - 1, r)

\* Fisher-Yates shuffle of a copy of the array
shuffleWords(array, r) == shuffleFrom(array, Len(array) - 1, r)

\* array.filter(keep) for the set `keep` of elements kept
RECURSIVE filter(_, _)
filter(array, keep) ==
    IF array = <<>> THEN <<>>
    ELSE IF Head(array) \in keep
        THEN <<Head(array)>> \o filter(Tail(array), keep)
        ELSE filter(Tail(array), keep)

NoMatch == [name |-> "null", words |-> <<>>, difficulty |-> "null"]

\* selectedWords.filter((w) => groupSet.has(w)).length
matchCount(selectedWords, group) ==
    Len(filter(selectedWords, Range(group.words)))

RECURSIVE checkFrom(_, _, _)
\* the loop over the groups from the k-th group on
checkFrom(selectedWords, groups, k) ==
    IF k > Len(groups) THEN [match |-> NoMatch, isClose |-> FALSE]
    ELSE IF matchCount(selectedWords, groups[k]) = WORDS_PER_GROUP
        THEN [match |-> groups[k], isClose |-> FALSE]
    ELSE IF matchCount(selectedWords, groups[k]) = 3
        THEN [match |-> NoMatch, isClose |-> TRUE]
    ELSE checkFrom(selectedWords, groups, k + 1)

checkGroup(selectedWords, groups) ==
    IF Len(selectedWords) # WORDS_PER_GROUP
    THEN [match |-> NoMatch, isClose |-> FALSE]
    ELSE checkFrom(selectedWords, groups, 1)

createGameState(b, r) ==
    [remainingWords |-> shuffleWords(b.words, r),
     solvedGroups |-> <<>>,
     selectedWords |-> <<>>,
     mistakesRemaining |-> MAX_MISTAKES,
     isComplete |-> FALSE,
     won |-> FALSE,
     attempts |-> <<>>]

\* groups.filter((g) => !solvedGroupNames.has(g.name))
unsolvedGroups(state, groups) ==
    filter(groups,
           {g \in Range(groups) :
               g.name \notin {s.name : s \in Range(state.solvedGroups)}})

\* mutant: an attempt is recorded for a correct guess only
processGuess_unrecorded(state, groups) ==
    IF Len(state.selectedWords) # WORDS_PER_GROUP THEN state
    ELSE
        LET match == checkGroup(state.selectedWords,
                                unsolvedGroups(state, groups)).match
        IN  IF match # NoMatch
            THEN [state EXCEPT
                    !.remainingWords =
                        filter(@, Range(@) \ Range(state.selectedWords)),
                    !.solvedGroups = Append(@, match),
                    !.selectedWords = <<>>,
                    !.isComplete = (Len(state.solvedGroups) + 1 = Len(groups)),
                    !.won = (Len(state.solvedGroups) + 1 = Len(groups)),
                    !.attempts = Append(@, [words |-> state.selectedWords,
                                            correct |-> TRUE])]
            ELSE [state EXCEPT
                    !.mistakesRemaining = @ - 1,
                    !.isComplete = (state.mistakesRemaining - 1 = 0),
                    !.won = FALSE]

processGuess(state, groups) ==
    IF Len(state.selectedWords) # WORDS_PER_GROUP THEN state
    ELSE
        LET match == checkGroup(state.selectedWords,
                                unsolvedGroups(state, groups)).match
            newAttempts == Append(state.attempts,
                                  [words |-> state.selectedWords,
                                   correct |-> match # NoMatch])
        IN  IF match # NoMatch
            THEN LET newSolvedGroups == Append(state.solvedGroups, match)
                     isComplete == Len(newSolvedGroups) = Len(groups)
                 IN  [remainingWords |->
                          filter(state.remainingWords,
                                 Range(state.remainingWords)
                                     \ Range(state.selectedWords)),
                      solvedGroups |-> newSolvedGroups,
                      selectedWords |-> <<>>,
                      mistakesRemaining |-> state.mistakesRemaining,
                      isComplete |-> isComplete,
                      won |-> isComplete,
                      attempts |-> newAttempts]
            ELSE LET newMistakes == state.mistakesRemaining - 1
                 IN  [state EXCEPT !.mistakesRemaining = newMistakes,
                                   !.isComplete = (newMistakes = 0),
                                   !.won = FALSE,
                                   !.attempts = newAttempts]

toggleWordSelection(state, word) ==
    IF word \in Range(state.selectedWords)
    THEN [state EXCEPT !.selectedWords =
              filter(@, Range(@) \ {word})]
    ELSE IF Len(state.selectedWords) >= WORDS_PER_GROUP THEN state
    ELSE [state EXCEPT !.selectedWords = Append(@, word)]

clearSelection(state) == [state EXCEPT !.selectedWords = <<>>]

shuffleRemainingWords(state, r) ==
    [state EXCEPT !.remainingWords = shuffleWords(@, r)]

\* how far below 0 the play is followed once mistakesRemaining got there
MaxOverdraft == 1

GroupA ==
    [name |-> "A", words |-> <<"w1", "w2", "w3", "w4">>, difficulty |-> "easy"]

GroupB ==
    [name |-> "B", words |-> <<"w5", "w6", "w7", "w8">>,
     difficulty |-> "medium"]

\* boards of one and of two groups; words is the union of the groups' words
Boards ==
    {[words |-> GroupA.words, groups |-> <<GroupA>>],
     [words |-> GroupA.words \o GroupB.words, groups |-> <<GroupA, GroupB>>]}

\* the offset of word in the array
indexOf(array, word) == CHOOSE k \in DOMAIN array : array[k] = word

\* the words a player starts a selection with
Openers == {"w1", "w2", "w5"}

\* the words the player taps in the state: an opener when nothing is
\* selected; else the word selected last (which deselects it), the word that
\* follows it on the board, or, with four selected, any word not selected
Taps(state, b) ==
    IF state.selectedWords = <<>> THEN Openers \cap Range(b.words)
    ELSE LET last == state.selectedWords[Len(state.selectedWords)]
         IN  {last} \cup
             {w \in Range(b.words) :
                 IF Len(state.selectedWords) >= WORDS_PER_GROUP
                 THEN w \notin Range(state.selectedWords)
                 ELSE indexOf(b.words, w) = indexOf(b.words, last) + 1}

InitGame ==
    /\ InitTables
    /\ pc = "start"
    /\ board \in Boards
    /\ gameState = NoGame
    /\ triple = NoTriple
    /\ inputWord = <<>>
    /\ output = <<>>
    /\ foundBoundaries = <<>>
    /\ called = FALSE
    /\ output2 = <<>>
    /\ inputText = <<>>
    /\ textOutput = <<>>
    /\ frame = NoFrame
    /\ lastCall = NoCall

hyphenationVars ==
    <<tables, inputWord, output, foundBoundaries, called, output2, inputText,
      textOutput, frame, lastCall, triple>>

CreateGameState ==
    /\ pc = "start"
    /\ \E r \in RandomValues : gameState' = createGameState(board, r)
    /\ pc' = "playing"
    /\ UNCHANGED <<board, hyphenationVars>>

ToggleWordSelection ==
    /\ pc = "playing"
    /\ \E word \in Taps(gameState, board) :
          gameState' = toggleWordSelection(gameState, word)
    /\ UNCHANGED <<pc, board, hyphenationVars>>

ClearSelection ==
    /\ pc = "playing"
    /\ gameState' = clearSelection(gameState)
    /\ UNCHANGED <<pc, board, hyphenationVars>>

ShuffleRemainingWords ==
    /\ pc = "playing"
    /\ \E r \in RandomValues :
          gameState' = shuffleRemainingWords(gameState, r)
    /\ UNCHANGED <<pc, board, hyphenationVars>>

\* followed while mistakesRemaining is above -MaxOverdraft
ProcessGuess ==
    /\ pc = "playing"
    /\ gameState.mistakesRemaining > -MaxOverdraft
    /\ gameState' = processGuess(gameState, board.groups)
    /\ UNCHANGED <<pc, board, hyphenationVars>>

NextGame ==
    \/ CreateGameState
    \/ ToggleWordSelection
    \/ ClearSelection
    \/ ShuffleRemainingWords
    \/ ProcessGuess

SpecGame == InitGame /\ [][NextGame]_vars

----------------------------------------------------------------------------
\* the six orders in which the three rules could be tried
RuleOrders ==
    {o \in [1..3 -> {"vcv", "cc", "double"}] : \A a, b \in 1..3 : o[a] = o[b] => a = b}

\* the rule chosen when the rules are tried in the order o
firstIn(o, rules) ==
    IF o[1] \in rules THEN o[1]
    ELSE IF o[2] \in rules THEN o[2]
    ELSE IF o[3] \in rules THEN o[3]
    ELSE "none"

\* C24: for every triple of characters at most one of the three interior
\* rule conditions holds, so every order of trying the rules chooses the
\* branch the code takes, and the offset is recorded at most once and only by
\* that branch.
C24_RuleExclusivity ==
    pc = "tried" =>
        /\ Cardinality(triple.rules) <= 1
        /\ \A o \in RuleOrders : firstIn(o, triple.rules) = triple.branch
        /\ Len(triple.boundaries) <= 1
        /\ triple.boundaries # <<>> =>
               triple.boundaries = <<1>> /\ triple.branch # "none"

\* a doubled consonant followed by a vowel: only the third rule holds and
\* it records the offset
C24_Witness ==
    /\ pc = "tried"
    /\ triple.prev = "t" /\ triple.curr = "t" /\ triple.next = "e"
    /\ triple.rules = {"double"}
    /\ triple.boundaries = <<1>>

----------------------------------------------------------------------------
\* the affix steps of findSyllableBoundaries are over
affixesDone == pc \in {"scan", "vcvClusters", "ccClusters"}

\* C25: the matched prefix and the matched suffix of a word never overlap:
\* after the affix steps of findSyllableBoundaries prefixEnd <= suffixStart
\* holds, so a prefix boundary is never greater than the suffix boundary.
C25_AffixesDisjoint ==
    affixesDone => frame.prefixEnd <= frame.suffixStart
----------------------------------------------------------------------------
\* an occurrence of the cluster ic in lowerWord covers the characters at
\* offsets p - 1 and p
occursAcross(ic, lowerWord, p) ==
    \E from \in 0..(p - 1) :
        /\ from + Len(ic) - 1 >= p
        /\ slice(lowerWord, from, from + Len(ic)) = ic

\* C26: no marker of any origin is inserted inside an occurrence of an
\* inseparable cluster: for every marker offset p of hyphenateWord's output
\* no INSEPARABLE_CLUSTERS entry occurs in the lower-cased word at a position
\* covering both p - 1 and p.
C26_ClustersUnsplit ==
    (pc = "once" /\ called) =>
        \A p \in insertedOffsets :
            \A k \in DOMAIN INSEPARABLE_CLUSTERS_INIT :
                ~occursAcross(INSEPARABLE_CLUSTERS_INIT[k],
                              toLowerCase(inputWord), p)
----------------------------------------------------------------------------
(* The puzzle reducer (under SpecGame).                                     *)

playing == pc = "playing"

\* C27: from createGameState(board) on, through any sequence of
\* toggleWordSelection, clearSelection, shuffleRemainingWords and
\* processGuess, mistakesRemaining stays within 0..MAX_MISTAKES, also when
\* processGuess is applied after the game is complete.
C27_MistakesInRange ==
    playing => gameState.mistakesRemaining \in 0..MAX_MISTAKES
\* C28: a completed game is terminal: once isComplete is true, no call of
\* toggleWordSelection, clearSelection, shuffleRemainingWords or processGuess
\* changes isComplete, won, mistakesRemaining, solvedGroups or attempts.
C28_Terminal ==
    [][(playing /\ gameState.isComplete) =>
          /\ gameState'.isComplete = gameState.isComplete
          /\ gameState'.won = gameState.won
          /\ gameState'.mistakesRemaining = gameState.mistakesRemaining
          /\ gameState'.solvedGroups = gameState.solvedGroups
          /\ gameState'.attempts = gameState.attempts]_vars

\* how often x occurs in the array
occurrences(array, x) == Cardinality({k \in DOMAIN array : array[k] = x})

allSolved ==
    \A g \in Range(board.groups) : g \in Range(gameState.solvedGroups)

\* C29: in every state reachable from createGameState(board), won implies
\* isComplete and solvedGroups holds every group of the board exactly once,
\* and isComplete holds exactly when all groups are solved or
\* mistakesRemaining is 0.
C29_Outcome ==
    playing =>
        /\ gameState.won =>
              /\ gameState.isComplete
              /\ \A g \in Range(board.groups) :
                     occurrences(gameState.solvedGroups, g) = 1
              /\ Len(gameState.solvedGroups) = Len(board.groups)
        /\ gameState.isComplete <=>
              (allSolved \/ gameState.mistakesRemaining = 0)

\* the words of the solved groups, in the order solved
RECURSIVE wordsOf(_)
wordsOf(groups) ==
    IF groups = <<>> THEN <<>> ELSE Head(groups).words \o wordsOf(Tail(groups))

\* C30: for a board whose groups are pairwise disjoint sets of exactly 4
\* words and whose words are their union, in every state reached through
\* the four reducer functions remainingWords and the words of solvedGroups
\* partition the board's words (none lost, duplicated or in both), and
\* attempts.length is the number of solved groups plus the number of
\* mistakes made.
C30_Partition ==
    playing =>
        LET all == gameState.remainingWords \o wordsOf(gameState.solvedGroups)
        IN  /\ Len(all) = Len(board.words)
            /\ \A w \in Range(board.words) : occurrences(all, w) = 1
            /\ Len(gameState.attempts) =
                   Len(gameState.solvedGroups)
                       + (MAX_MISTAKES - gameState.mistakesRemaining)

\* one group solved after two mistakes and a shuffle that moved the four
\* words left
C30_Witness ==
    /\ playing
    /\ gameState.solvedGroups = <<GroupA>>
    /\ gameState.mistakesRemaining = MAX_MISTAKES - 2
    /\ Len(gameState.attempts) = 3
    /\ Range(gameState.remainingWords) = Range(GroupB.words)
    /\ gameState.remainingWords # GroupB.words
====
